---- MODULE Spec2Model ----
(***************************************************************************)
(* Model of backend/daily_generator.py: the NewsKernal daily pipeline.     *)
(* One operating-system process per run: the module-level secret check and *)
(* client construction, then main(): news GET, LLM completion, TTS save,   *)
(* audio upload, metadata upload.  Several processes share one bucket.     *)
(***************************************************************************)
EXTENDS Integers, Sequences, FiniteSets, TLC

\* ---------------------------------------------------------------- bounds
MaxRuns == 2          \* runs the scheduler launches in one behaviour
MaxResults == 6       \* longest results array of the fetch specification
SmallLen == 1         \* longest results array of the whole-run specifications

\* ------------------------------------------------------- program constants
TopN == 5             \* data.get('results', [])[:5]
ExitFail == 1         \* exit(1)
ExitOk == 0           \* main() returns, asyncio.run() returns

\* ------------------------------------------------------------ Python values
PyNone == "<None>"            \* None
Missing == "<missing>"        \* key absent from a dict / name not yet bound
HeadlinePrefix == "Headline: "
SummaryInfix == "<NL>Summary: "
BlankLine == "<NL><NL>"

Procs == {1, 2}               \* process slots (a slot is reused by a later run)
Keys == {"NEWSDATA_API_KEY", "GROQ_API_KEY", "SUPABASE_URL", "SUPABASE_KEY"}
KeyOrder == <<"NEWSDATA_API_KEY", "GROQ_API_KEY", "SUPABASE_URL", "SUPABASE_KEY">>
EnvValues == {PyNone, "", "k"}     \* os.getenv: unset, empty, set
Scripts == {PyNone, "", "S1"}      \* completion.choices[0].message.content
Stages == <<"get", "llm", "tts", "audio", "meta">>

\* Python truthiness of the values used here
Truthy(v) == v \notin {PyNone, ""}

\* str() as the f-string applies it
Str(v) == IF v = PyNone THEN "None" ELSE v

Min(a, b) == IF a < b THEN a ELSE b

\* ------------------------------------------------------------ API responses
Entries ==
  { [title |-> "T1", description |-> Missing],
    [title |-> "T2", description |-> PyNone],
    [title |-> "T1", description |-> ""],
    [title |-> "T2", description |-> "D1"],
    [title |-> Missing, description |-> "D2"] }

PlainEntries == { [title |-> "T1", description |-> "D1"] }

SeqsUpTo(S, n) == UNION { [1..k -> S] : k \in 0..n }

ResultShapes(E, n) ==
  { [kind |-> "missing", items |-> <<>>], [kind |-> "null", items |-> <<>>] }
    \cup { [kind |-> "list", items |-> s] : s \in SeqsUpTo(E, n) }

NoResults == [kind |-> "missing", items |-> <<>>]
NoResponse == [http |-> 0, json |-> FALSE, status |-> Missing, results |-> NoResults]

Responses(E, n) ==
  { [http |-> h, json |-> FALSE, status |-> Missing, results |-> NoResults] : h \in {200, 500} }
    \cup { [http |-> h, json |-> TRUE, status |-> s, results |-> r] :
             h \in {200, 500}, s \in {"success", "error"}, r \in ResultShapes(E, n) }

\* ------------------------------------------------------------- pure helpers
\* dict.get(key) on an entry: None when the key is absent
Get(v) == IF v = Missing THEN PyNone ELSE v

\* mutant: item.get('description', item.get('title')): no fallback for null or empty
SummaryDefaultOnly(item) ==
  IF item.description # Missing THEN item.description ELSE Get(item.title)

\* item.get('description') or item.get('title')
Summary(item) ==
  IF Truthy(Get(item.description)) THEN Get(item.description) ELSE Get(item.title)

\* f"Headline: {item['title']}\nSummary: {desc}"
Article(item) == <<HeadlinePrefix, Str(item.title), SummaryInfix, Str(Summary(item))>>

\* data.get('results', [])[:5]
TopItems(items) == SubSeq(items, 1, Min(TopN, Len(items)))

\* item['title'] raises KeyError
Raises(items) == \E i \in 1..Len(items) : items[i].title = Missing

RECURSIVE BuildArticles(_)
BuildArticles(items) ==
  IF items = <<>> THEN <<>>
  ELSE <<Article(Head(items))>> \o BuildArticles(Tail(items))

\* mutant: a separator after every part, the last one included
RECURSIVE JoinTrailing(_, _)
JoinTrailing(sep, parts) ==
  IF parts = <<>> THEN <<>>
  ELSE Head(parts) \o <<sep>> \o JoinTrailing(sep, Tail(parts))

\* sep.join(parts) on token sequences
RECURSIVE Join(_, _)
Join(sep, parts) ==
  IF parts = <<>> THEN <<>>
  ELSE IF Len(parts) = 1 THEN Head(parts)
  ELSE Head(parts) \o <<sep>> \o Join(sep, Tail(parts))

\* mutant: tests "is not None" only, so an empty secret passes
SecretsPresentNotNone(e) == \A i \in 1..Len(KeyOrder) : e[KeyOrder[i]] # PyNone

\* all([NEWS_API_KEY, GROQ_API_KEY, SUPABASE_URL, SUPABASE_KEY])
SecretsPresent(e) == \A i \in 1..Len(KeyOrder) : Truthy(e[KeyOrder[i]])

\* ------------------------------------------------------------------- state
VARIABLES
  runCount,     \* runs launched so far
  runId,        \* runId[p]: the run executing in slot p (0: none yet)
  pc,           \* position of the process in slot p
  exitCode,     \* -1 while running
  env,          \* the four secrets as os.getenv returned them
  clients,      \* groq_client and supabase constructed
  resp,         \* the response of requests.get
  articles,     \* the list built by the loop
  userMsg,      \* content of the user message sent to the LLM
  script,       \* script_text
  events,       \* external calls of the run and their outcomes, in order
  bucketAudio,  \* public/latest_brief.mp3
  bucketMeta    \* public/latest_data.json

vars == <<runCount, runId, pc, exitCode, env, clients, resp, articles, userMsg,
          script, events, bucketAudio, bucketMeta>>

locals == <<env, clients, resp, articles, userMsg, script>>
bucket == <<bucketAudio, bucketMeta>>

NoObject == [run |-> 0, text |-> Missing]
NoEnv == [k \in Keys |-> PyNone]

Ev(call, kind) == [call |-> call, kind |-> kind]

Init ==
  /\ runCount = 0
  /\ runId = [p \in Procs |-> 0]
  /\ pc = [p \in Procs |-> "idle"]
  /\ exitCode = [p \in Procs |-> -1]
  /\ env = [p \in Procs |-> NoEnv]
  /\ clients = [p \in Procs |-> FALSE]
  /\ resp = [p \in Procs |-> NoResponse]
  /\ articles = [p \in Procs |-> <<>>]
  /\ userMsg = [p \in Procs |-> <<>>]
  /\ script = [p \in Procs |-> Missing]
  /\ events = [p \in Procs |-> <<>>]
  /\ bucketAudio = NoObject
  /\ bucketMeta = NoObject

\* the process ends with the given exit status
Exit(p, code) ==
  /\ pc' = [pc EXCEPT ![p] = "exited"]
  /\ exitCode' = [exitCode EXCEPT ![p] = code]

Goto(p, label) ==
  /\ pc' = [pc EXCEPT ![p] = label]
  /\ UNCHANGED exitCode

Log(p, evs) == events' = [events EXCEPT ![p] = @ \o evs]

\* ----------------------------------------------------------------- actions
\* A fresh process starts in slot p: the secrets are read and verified, the
\* clients are constructed, and asyncio.run(main()) is entered.
Launch(p) ==
  /\ pc[p] \in {"idle", "exited"}
  /\ runCount < MaxRuns
  /\ runCount' = runCount + 1
  /\ runId' = [runId EXCEPT ![p] = runCount + 1]
  /\ resp' = [resp EXCEPT ![p] = NoResponse]
  /\ articles' = [articles EXCEPT ![p] = <<>>]
  /\ userMsg' = [userMsg EXCEPT ![p] = <<>>]
  /\ script' = [script EXCEPT ![p] = Missing]
  /\ events' = [events EXCEPT ![p] = <<>>]
  /\ \E e \in [Keys -> EnvValues] :
       /\ env' = [env EXCEPT ![p] = e]
       /\ IF ~SecretsPresent(e)
            THEN /\ clients' = [clients EXCEPT ![p] = FALSE]
                 /\ Exit(p, ExitFail)
            ELSE \E built \in BOOLEAN :
                   /\ clients' = [clients EXCEPT ![p] = built]
                   /\ IF built
                        THEN /\ pc' = [pc EXCEPT ![p] = "fetch"]
                             /\ exitCode' = [exitCode EXCEPT ![p] = -1]
                        ELSE Exit(p, ExitFail)   \* a constructor raised, uncaught
  /\ UNCHANGED bucket

\* requests.get, response.json(), the status test, the article loop and the
\* empty test: everything up to the LLM call.  R is the set of responses the
\* news API may give.
FetchNews(p, R) ==
  /\ pc[p] = "fetch"
  /\ \/ /\ Log(p, <<Ev("get", "begin"), Ev("get", "raised")>>)   \* requests.get raises
        /\ Exit(p, ExitFail)
        /\ UNCHANGED <<resp, articles>>
     \/ \E r \in R :
          /\ resp' = [resp EXCEPT ![p] = r]
          /\ Log(p, <<Ev("get", "begin"), Ev("get", "ok")>>)
          /\ IF ~r.json                               \* response.json() raises
               THEN Exit(p, ExitFail) /\ UNCHANGED articles
             ELSE IF r.status = "error"               \* return
               THEN Exit(p, ExitOk) /\ UNCHANGED articles
             ELSE IF r.results.kind = "null"          \* None[:5] raises TypeError
               THEN Exit(p, ExitFail) /\ UNCHANGED articles
             ELSE IF Raises(TopItems(r.results.items))  \* item['title'] raises KeyError
               THEN Exit(p, ExitFail) /\ UNCHANGED articles
             ELSE /\ articles' = [articles EXCEPT ![p] = BuildArticles(TopItems(r.results.items))]
                  /\ IF articles'[p] = <<>>           \* "No news found. Aborting."; return
                       THEN Exit(p, ExitOk)
                       ELSE Goto(p, "compose")
  /\ UNCHANGED <<runCount, runId, env, clients, userMsg, script, bucket>>

\* groq_client.chat.completions.create(...) and choices[0].message.content
Compose(p) ==
  /\ pc[p] = "compose"
  /\ userMsg' = [userMsg EXCEPT ![p] = Join(BlankLine, articles[p])]
  /\ \/ /\ Log(p, <<Ev("llm", "begin"), Ev("llm", "raised")>>)
        /\ Exit(p, ExitFail)
        /\ UNCHANGED script
     \/ \E s \in Scripts :
          /\ Log(p, <<Ev("llm", "begin"), Ev("llm", "ok")>>)
          /\ script' = [script EXCEPT ![p] = s]
          /\ Goto(p, "synth")
  /\ UNCHANGED <<runCount, runId, env, clients, resp, articles, bucket>>

\* mutant: a failed synthesis is swallowed and the run goes on to upload
SynthesizeSwallow(p) ==
  /\ pc[p] = "synth"
  /\ \/ Log(p, <<Ev("tts", "begin"), Ev("tts", "raised")>>)
     \/ Log(p, <<Ev("tts", "begin"), Ev("tts", "ok")>>)
  /\ Goto(p, "upload_audio")
  /\ UNCHANGED <<runCount, runId, locals, bucket>>

\* edge_tts.Communicate(script_text, voice) and await communicate.save(...)
Synthesize(p) ==
  /\ pc[p] = "synth"
  /\ \/ /\ Log(p, <<Ev("tts", "begin"), Ev("tts", "raised")>>)
        /\ Exit(p, ExitFail)
     \/ /\ Log(p, <<Ev("tts", "begin"), Ev("tts", "ok")>>)
        /\ Goto(p, "upload_audio")
  /\ UNCHANGED <<runCount, runId, locals, bucket>>

\* mutant: a lock over the two paths: no upload while another run is publishing
UploadAudioBeginLocked(p) ==
  /\ pc[p] = "upload_audio"
  /\ \A q \in Procs \ {p} :
       pc[q] \notin {"audio_inflight", "upload_meta", "meta_inflight"}
  /\ Log(p, <<Ev("audio", "begin")>>)
  /\ Goto(p, "audio_inflight")
  /\ UNCHANGED <<runCount, runId, locals, bucket>>

\* the audio upload call is issued
UploadAudioBegin(p) ==
  /\ pc[p] = "upload_audio"
  /\ Log(p, <<Ev("audio", "begin")>>)
  /\ Goto(p, "audio_inflight")
  /\ UNCHANGED <<runCount, runId, locals, bucket>>

\* mutant: an audio upload that raised is swallowed and the metadata follows
UploadAudioReturnSwallow(p) ==
  /\ pc[p] = "audio_inflight"
  /\ \E ok \in BOOLEAN, wrote \in BOOLEAN :
       /\ ok => wrote
       /\ bucketAudio' = IF wrote THEN [run |-> runId[p], text |-> script[p]]
                                  ELSE bucketAudio
       /\ Log(p, <<Ev("audio", IF ok THEN "ok" ELSE "raised")>>)
       /\ Goto(p, "upload_meta")
  /\ UNCHANGED <<runCount, runId, locals, bucketMeta>>

\* mutant: the audio goes to another path, so latest_brief.mp3 is not replaced
UploadAudioReturnNoWrite(p) ==
  /\ pc[p] = "audio_inflight"
  /\ \E ok \in BOOLEAN :
       /\ bucketAudio' = bucketAudio
       /\ IF ok THEN Log(p, <<Ev("audio", "ok")>>) /\ Goto(p, "upload_meta")
                ELSE Log(p, <<Ev("audio", "raised")>>) /\ Exit(p, ExitFail)
  /\ UNCHANGED <<runCount, runId, locals, bucketMeta>>

\* the audio upload call returns or raises; a call that raises may or may not
\* have replaced the object
UploadAudioReturn(p) ==
  /\ pc[p] = "audio_inflight"
  /\ \E ok \in BOOLEAN, wrote \in BOOLEAN :
       /\ ok => wrote
       /\ bucketAudio' = IF wrote THEN [run |-> runId[p], text |-> script[p]]
                                  ELSE bucketAudio
       /\ IF ok THEN Log(p, <<Ev("audio", "ok")>>) /\ Goto(p, "upload_meta")
                ELSE Log(p, <<Ev("audio", "raised")>>) /\ Exit(p, ExitFail)
  /\ UNCHANGED <<runCount, runId, locals, bucketMeta>>

\* the metadata is built and its upload call is issued
UploadMetaBegin(p) ==
  /\ pc[p] = "upload_meta"
  /\ Log(p, <<Ev("meta", "begin")>>)
  /\ Goto(p, "meta_inflight")
  /\ UNCHANGED <<runCount, runId, locals, bucket>>

\* the metadata upload returns ("Broadcast is LIVE", main returns) or raises
UploadMetaReturn(p) ==
  /\ pc[p] = "meta_inflight"
  /\ \E ok \in BOOLEAN, wrote \in BOOLEAN :
       /\ ok => wrote
       /\ bucketMeta' = IF wrote THEN [run |-> runId[p], text |-> script[p]]
                                 ELSE bucketMeta
       /\ IF ok THEN Log(p, <<Ev("meta", "ok")>>) /\ Exit(p, ExitOk)
                ELSE Log(p, <<Ev("meta", "raised")>>) /\ Exit(p, ExitFail)
  /\ UNCHANGED <<runCount, runId, locals, bucketAudio>>

\* ---------------------------------------------------------- specifications
\* Runs that never overlap: the scheduler starts a run only after the
\* previous one has ended (one slot).
Next ==
  \/ Launch(1)
  \/ FetchNews(1, Responses(Entries, SmallLen))
  \/ Compose(1)
  \/ Synthesize(1)
  \/ UploadAudioBegin(1)
  \/ UploadAudioReturn(1)
  \/ UploadMetaBegin(1)
  \/ UploadMetaReturn(1)

Spec == Init /\ [][Next]_vars

\* Runs that may overlap: two slots.
NextOverlap ==
  \E p \in Procs :
    \/ Launch(p)
    \/ FetchNews(p, Responses(PlainEntries, SmallLen))
    \/ Compose(p)
    \/ Synthesize(p)
    \/ UploadAudioBegin(p)
    \/ UploadAudioReturn(p)
    \/ UploadMetaBegin(p)
    \/ UploadMetaReturn(p)

SpecOverlap == Init /\ [][NextOverlap]_vars

\* The Fetcher and the Composer alone, over the large response domain: one
\* process that has passed the secret check and is about to fetch.
InitFetch ==
  /\ runCount = 1
  /\ runId = [p \in Procs |-> IF p = 1 THEN 1 ELSE 0]
  /\ pc = [p \in Procs |-> IF p = 1 THEN "fetch" ELSE "idle"]
  /\ exitCode = [p \in Procs |-> -1]
  /\ env = [p \in Procs |-> IF p = 1 THEN [k \in Keys |-> "k"] ELSE NoEnv]
  /\ clients = [p \in Procs |-> p = 1]
  /\ resp = [p \in Procs |-> NoResponse]
  /\ articles = [p \in Procs |-> <<>>]
  /\ userMsg = [p \in Procs |-> <<>>]
  /\ script = [p \in Procs |-> Missing]
  /\ events = [p \in Procs |-> <<>>]
  /\ bucketAudio = NoObject
  /\ bucketMeta = NoObject

NextFetch ==
  \/ FetchNews(1, Responses(Entries, MaxResults))
  \/ Compose(1)

SpecFetch == InitFetch /\ [][NextFetch]_vars

\* ------------------------------------------------------------ observations
Called(p, call) == \E i \in 1..Len(events[p]) : events[p][i] = Ev(call, "begin")
Received(p) == resp[p].http # 0

\* ------------------------------------------------------------------ claims

\* C1 (as stated): a response whose status is 'error', or whose results array
\* is empty or absent, ends the run before the LLM call, with no synthesis and
\* no upload, and with a non-zero exit code.
C1_ErrorOrEmptyExitsNonZero ==
  \A p \in Procs :
    (/\ Received(p)
     /\ resp[p].json
     /\ \/ resp[p].status = "error"
        \/ resp[p].results.kind = "missing"
        \/ resp[p].results.kind = "list" /\ resp[p].results.items = <<>>)
    => /\ \A c \in {"llm", "tts", "audio", "meta"} : ~Called(p, c)
       /\ pc[p] = "exited"
       /\ exitCode[p] # 0

\* C2: when one of the four secrets is unset or empty the process exits
\* non-zero with no client constructed and no external call made.
C2_MissingSecretExitsBeforeAnyCall ==
  \A p \in Procs :
    (pc[p] # "idle" /\ \E k \in Keys : env[p][k] \in {PyNone, ""})
    => /\ pc[p] = "exited"
       /\ exitCode[p] # 0
       /\ ~clients[p]
       /\ events[p] = <<>>

C2_Witness ==
  \E p \in Procs, k \in Keys :
    /\ env[p][k] = ""
    /\ \A j \in Keys \ {k} : env[p][j] = "k"
    /\ pc[p] = "exited"
    /\ exitCode[p] = ExitFail

\* C3: the metadata upload begins only after the audio upload of the same run
\* has returned, and never begins when the audio upload raised.
C3_AudioSettledBeforeMetadata ==
  \A p \in Procs :
    /\ \A i \in 1..Len(events[p]) :
         events[p][i] = Ev("meta", "begin")
         => /\ i > 2
            /\ events[p][i-1] = Ev("audio", "ok")
            /\ events[p][i-2] = Ev("audio", "begin")
    /\ (\E i \in 1..Len(events[p]) : events[p][i] = Ev("audio", "raised"))
         => ~Called(p, "meta")

C3_Witness ==
  \E p \in Procs :
    /\ events[p] # <<>>
    /\ events[p][Len(events[p])] = Ev("audio", "raised")
    /\ pc[p] = "exited"
    /\ bucketAudio.run = runId[p]

\* C4 (as stated): for status=success and a non-empty results array the
\* Fetcher produces exactly min(5, len(results)) articles, in response order,
\* each with the description when present and non-empty, else the title, for
\* every entry shape.
C4_ArticlesForEveryEntryShape ==
  \A p \in Procs :
    (/\ Received(p) /\ resp[p].json /\ resp[p].status = "success"
     /\ resp[p].results.kind = "list" /\ resp[p].results.items # <<>>)
    => LET items == resp[p].results.items
           n == IF Len(items) < 5 THEN Len(items) ELSE 5
       IN /\ Len(articles[p]) = n
          /\ \A i \in 1..n :
               /\ articles[p][i][2] = items[i].title
               /\ articles[p][i][4] =
                    IF items[i].description \notin {Missing, PyNone, ""}
                      THEN items[i].description ELSE items[i].title

\* C4 (amended): the same, for responses whose first min(5, len(results))
\* entries all carry a title; when one of them has no title the run ends with
\* exit code 1 and no LLM call.
C4_ArticlesWhenTitled ==
  \A p \in Procs :
    (/\ Received(p) /\ resp[p].json /\ resp[p].status = "success"
     /\ resp[p].results.kind = "list" /\ resp[p].results.items # <<>>)
    => LET items == resp[p].results.items
           n == IF Len(items) < 5 THEN Len(items) ELSE 5
       IN IF \A i \in 1..n : items[i].title # Missing
            THEN /\ Len(articles[p]) = n
                 /\ \A i \in 1..n :
                      /\ articles[p][i][2] = items[i].title
                      /\ articles[p][i][4] =
                           IF items[i].description \notin {Missing, PyNone, ""}
                             THEN items[i].description ELSE items[i].title
            ELSE /\ pc[p] = "exited"
                 /\ exitCode[p] = ExitFail
                 /\ ~Called(p, "llm")

C4_Witness ==
  \E p \in Procs :
    /\ resp[p].json /\ resp[p].status = "success"
    /\ Len(resp[p].results.items) = 6
    /\ resp[p].results.items[6].title = Missing
    /\ \E i, j, k \in 1..5 :
         /\ resp[p].results.items[i].description = Missing
         /\ resp[p].results.items[j].description = PyNone
         /\ resp[p].results.items[k].description = ""
    /\ Len(articles[p]) = 5

\* C5 (as stated): a non-success HTTP status ends the run with a non-zero exit
\* code and no LLM call, synthesis or upload, whatever the body holds, after
\* exactly one request.
C5_HttpErrorAborts ==
  \A p \in Procs :
    (Received(p) /\ resp[p].http # 200)
    => /\ \A c \in {"llm", "tts", "audio", "meta"} : ~Called(p, c)
       /\ pc[p] = "exited"
       /\ exitCode[p] # 0
       /\ Cardinality({i \in 1..Len(events[p]) : events[p][i] = Ev("get", "begin")}) = 1

\* C6: the external calls of a run are a prefix of get, llm, tts, audio, meta,
\* each made at most once and only right after the previous one returned; a
\* call that raises is the last event of the run, which ends non-zero.
C6_StagesInOrderAndFailStop ==
  \A p \in Procs :
    LET begins == SelectSeq(events[p], LAMBDA e : e.kind = "begin")
    IN /\ Len(begins) <= Len(Stages)
       /\ \A i \in 1..Len(begins) : begins[i].call = Stages[i]
       /\ \A i \in 1..Len(events[p]) :
            /\ (events[p][i].kind = "begin" /\ i > 1)
                 => \E s \in 2..Len(Stages) :
                      /\ events[p][i].call = Stages[s]
                      /\ events[p][i-1] = Ev(Stages[s-1], "ok")
            /\ events[p][i].kind = "raised"
                 => /\ i = Len(events[p])
                    /\ pc[p] = "exited"
                    /\ exitCode[p] # 0

C6_Witness ==
  \E p \in Procs :
    /\ events[p] = <<Ev("get", "begin"), Ev("get", "ok"), Ev("llm", "begin"),
                     Ev("llm", "ok"), Ev("tts", "begin"), Ev("tts", "raised")>>
    /\ pc[p] = "exited"
    /\ exitCode[p] = ExitFail

\* C7 (as stated): whenever synthesis is invoked the script is non-empty; an
\* empty or null first completion ends the run before the synthesizer.
C7_ScriptNonEmptyAtSynthesis ==
  \A p \in Procs :
    Called(p, "tts") => script[p] \notin {Missing, PyNone, ""}

\* C8: the user message is the articles of the first min(5, len) entries, each
\* as Headline/title/Summary/summary, in response order, with exactly one
\* blank line between consecutive articles and none before or after.
C8_UserMessageLayout ==
  \A p \in Procs :
    Called(p, "llm")
    => LET items == resp[p].results.items
           n == IF Len(items) < 5 THEN Len(items) ELSE 5
           m == userMsg[p]
       IN /\ n >= 1
          /\ Len(m) = 5 * n - 1
          /\ \A i \in 1..n :
               /\ m[5 * (i - 1) + 1] = HeadlinePrefix
               /\ m[5 * (i - 1) + 2] = items[i].title
               /\ m[5 * (i - 1) + 3] = SummaryInfix
               /\ m[5 * (i - 1) + 4] =
                    IF items[i].description \notin {Missing, PyNone, ""}
                      THEN items[i].description ELSE items[i].title
               /\ i < n => m[5 * i] = BlankLine

C8_Witness ==
  \E p \in Procs :
    /\ Called(p, "llm")
    /\ Len(resp[p].results.items) = 6
    /\ resp[p].results.items[1].title # resp[p].results.items[2].title
    /\ Len(userMsg[p]) = 24

\* C9: with runs that do not overlap, the metadata object is never fresher
\* than the audio object: metadata written by run N comes with audio written
\* by run N or a later run.
C9_MetadataNeverFresherThanAudio ==
  bucketMeta.run > 0 => bucketAudio.run >= bucketMeta.run

C9_Witness ==
  /\ bucketMeta.run = 1
  /\ bucketAudio.run = 2
  /\ pc[1] = "exited"
  /\ exitCode[1] = ExitFail

\* C10: no lock guards the two paths: a run that is about to upload can always
\* issue its upload, whatever the other run is doing; two overlapping runs can
\* therefore both finish with exit code 0 and leave audio and metadata of
\* different runs (the witness).
C10_NoLockOverUploads ==
  \A p \in Procs :
    /\ pc[p] = "upload_audio" => ENABLED UploadAudioBegin(p)
    /\ pc[p] = "upload_meta" => ENABLED UploadMetaBegin(p)
    /\ (pc[p] = "exited" /\ exitCode[p] = ExitOk /\ Called(p, "meta"))
         => bucketAudio.run > 0 /\ bucketMeta.run > 0

C10_Witness ==
  /\ \A p \in Procs : pc[p] = "exited" /\ exitCode[p] = ExitOk /\ Called(p, "meta")
  /\ runId[1] # runId[2]
  /\ bucketAudio.run # bucketMeta.run
  /\ bucketAudio.run \in {runId[1], runId[2]}
  /\ bucketMeta.run \in {runId[1], runId[2]}
  /\ bucketAudio.text # bucketMeta.text
====
